---- MODULE Spec2Model ----
(***************************************************************************)
(* EnviroWatchRPA: the enrichment-and-KPI engine of src/transform.py       *)
(* (clean_and_join, add_temp_fahrenheit, compute_kpis) as driven by        *)
(* src/main.py.                                                            *)
(*                                                                         *)
(* Tables are sequences of row records (row order is the DataFrame's row   *)
(* order).  A numeric cell is a triple <<tag, n, d>>:                      *)
(*   <<"num", n, d>>  the rational n/d in lowest terms, d > 0              *)
(*   <<"nan", 0, 1>>  a null (NaN / None)                                  *)
(*   <<"str", 0, 1>>  a value that is not a number (e.g. the text "n/a")   *)
(* Rationals stand for the floats of the program: sums, means and medians  *)
(* are exact.                                                              *)
(***************************************************************************)
EXTENDS Integers, Sequences, FiniteSets, TLC

VARIABLES
    pc,          \* position of the caller: "start", "joined", "enriched", "done", "failed", "unit"
    api_df,      \* the weather table passed to clean_and_join: [columns, rows]
    aq_df,       \* the air-quality table passed to clean_and_join (sequence of rows)
    renew_df,    \* the renewable-share table passed to clean_and_join (sequence of rows)
    include_fahrenheit, \* args.include_fahrenheit
    enriched,    \* the table the caller holds: [columns, rows]
    raised,      \* the exception surfaced to the caller: "none", "KeyError", "TypeError"
    kpis,        \* the dictionary returned by compute_kpis
    calls,       \* number of calls made: of add_temp_fahrenheit on `enriched` (Spec,
                 \* SpecUnit), of clean_and_join and compute_kpis (SpecCalls)
    http         \* the online fetch of src/fetch_api.py: its arguments, loop index,
                 \* requests made, pauses taken, last response, result and table

vars == <<pc, api_df, aq_df, renew_df, include_fahrenheit, enriched, raised, kpis, calls,
          http>>

----------------------------------------------------------------------------
(* Numeric cells *)

NaN == <<"nan", 0, 1>>
Str == <<"str", 0, 1>>

IsNum(c) == c[1] = "num"
IsNull(c) == c[1] = "nan"

Abs(n) == IF n < 0 THEN -n ELSE n

RECURSIVE GCD(_, _)
GCD(a, b) == IF b = 0 THEN a ELSE GCD(b, a % b)

\* the rational n/d (d # 0) in lowest terms with a positive denominator
Q(n, d) ==
    LET g == GCD(Abs(n), Abs(d))
        s == IF d < 0 THEN -1 ELSE 1
    IN  <<"num", (s * n) \div g, (s * d) \div g>>

Int2Q(n) == <<"num", n, 1>>

QAdd(a, b) == Q(a[2] * b[3] + b[2] * a[3], a[3] * b[3])
QSub(a, b) == Q(a[2] * b[3] - b[2] * a[3], a[3] * b[3])
QDivInt(a, k) == Q(a[2], a[3] * k)
QLe(a, b) == a[2] * b[3] <= b[2] * a[3]
QLt(a, b) == a[2] * b[3] < b[2] * a[3]

\* the sub-sequence of the elements of s that satisfy Test, in order
SelectNum(s) == SelectSeq(s, IsNum)

RECURSIVE QSum(_)
QSum(s) == IF s = <<>> THEN Int2Q(0) ELSE QAdd(s[1], QSum(Tail(s)))

\* mean(skipna=True): the mean of the non-null values, NaN when there is none
NanMean(s) ==
    LET v == SelectNum(s)
    IN  IF v = <<>> THEN NaN ELSE QDivInt(QSum(v), Len(v))

----------------------------------------------------------------------------
(* Unit Enricher: src/transform.py, c_to_f and add_temp_fahrenheit *)

\* Python's round(x, 0) of the rational a/d (d > 0): nearest integer, ties to even
RoundHalfEven(a, d) ==
    LET q == a \div d
        r == a % d
    IN  IF 2 * r < d THEN q
        ELSE IF 2 * r > d THEN q + 1
        ELSE IF q % 2 = 0 THEN q ELSE q + 1

\* a plausible slip: the rounding to one decimal is left out
c_to_f_unrounded(celsius) ==
    IF ~IsNum(celsius) THEN NaN
    ELSE QAdd(Q(celsius[2] * 9, celsius[3] * 5), Int2Q(32))

\* round((celsius * 9 / 5) + 32, 1); round(nan, 1) is nan
c_to_f(celsius) ==
    IF ~IsNum(celsius) THEN NaN
    ELSE LET x == QAdd(Q(celsius[2] * 9, celsius[3] * 5), Int2Q(32))
         IN  Q(RoundHalfEven(x[2] * 10, x[3]), 10)

\* df["temp_f"] = df["temp_c"].apply(c_to_f)
AssignTempF(df) ==
    [columns |-> df.columns \cup {"temp_f"},
     rows    |-> [i \in 1..Len(df.rows) |->
                    [df.rows[i] EXCEPT !.temp_f = c_to_f(df.rows[i].temp_c)]]]

\* a plausible slip: the column is re-derived on every call
add_temp_fahrenheit_overwrite(df) ==
    IF "temp_c" \notin df.columns
    THEN [raised |-> "KeyError", df |-> df]
    ELSE [raised |-> "none", df |-> AssignTempF(df)]

\* a plausible slip: a missing temp_c is skipped silently instead of raising
add_temp_fahrenheit_silent(df) ==
    IF "temp_c" \notin df.columns
    THEN [raised |-> "none", df |-> df]
    ELSE IF "temp_f" \notin df.columns
    THEN [raised |-> "none", df |-> AssignTempF(df)]
    ELSE [raised |-> "none", df |-> df]

add_temp_fahrenheit(df) ==
    IF "temp_c" \notin df.columns
    THEN [raised |-> "KeyError", df |-> df]
    ELSE IF "temp_f" \notin df.columns
    THEN [raised |-> "none", df |-> AssignTempF(df)]
    ELSE [raised |-> "none", df |-> df]

----------------------------------------------------------------------------
(* clean_and_join: src/transform.py lines 26-71 *)

NoCity == "<NA>"       \* a null city

\* pd.to_datetime(df["date"]).dt.date.astype(str): a raw date is a record
\* [day, time]; the canonical ISO calendar date drops the time of day and is
\* held as the day's ordinal (ISO strings order as their days do)
to_date_str(raw) == raw.day

\* pd.to_numeric(x, errors="coerce")
to_numeric(c) == IF IsNum(c) THEN c ELSE NaN

\* Series.fillna(value)
fillna(c, value) == IF IsNull(c) THEN value ELSE c

Column(rows, col) == [i \in 1..Len(rows) |-> rows[i][col]]

RECURSIVE InsertSorted(_, _)
InsertSorted(x, s) ==
    IF s = <<>> THEN <<x>>
    ELSE IF QLe(x, s[1]) THEN <<x>> \o s
    ELSE <<s[1]>> \o InsertSorted(x, Tail(s))

RECURSIVE SortQ(_)
SortQ(s) == IF s = <<>> THEN <<>> ELSE InsertSorted(s[1], SortQ(Tail(s)))

\* Series.median() of a numeric column: nulls are skipped; NaN when all null
median(col) ==
    LET v == SortQ(SelectNum(col))
        n == Len(v)
    IN  IF n = 0 THEN NaN
        ELSE IF n % 2 = 1 THEN v[(n + 1) \div 2]
        ELSE QDivInt(QAdd(v[n \div 2], v[n \div 2 + 1]), 2)

\* lines 36-43: coerce dates, fill the weather city, coerce aqi and co2_ppm
NormalizeApi(rows) ==
    [i \in 1..Len(rows) |->
        [rows[i] EXCEPT !.date = to_date_str(@),
                        !.city = IF @ = NoCity THEN "Unknown" ELSE @]]

NormalizeAq(rows) ==
    [i \in 1..Len(rows) |->
        [rows[i] EXCEPT !.date = to_date_str(@),
                        !.aqi = to_numeric(@),
                        !.co2_ppm = to_numeric(@)]]

JoinedRow(a, city, temp_c, humidity, precip_mm) ==
    [station_id |-> a.station_id, date |-> a.date, aqi |-> a.aqi,
     co2_ppm |-> a.co2_ppm, city |-> city, temp_c |-> temp_c,
     humidity |-> humidity, precip_mm |-> precip_mm,
     renewable_share |-> NaN, temp_f |-> NaN]

\* a plausible slip: how="inner", which drops the unmatched left rows
WeatherMatchesInner(a, api) ==
    LET m == SelectSeq(api, LAMBDA w : w.station_id = a.station_id /\ w.date = a.date)
    IN  [j \in 1..Len(m) |->
            JoinedRow(a, m[j].city, m[j].temp_c, m[j].humidity, m[j].precip_mm)]

\* the rows a left row yields in pd.merge(aq, api, on=["station_id","date"],
\* how="left"): one per matching weather row, in the weather table's order,
\* or a single row with null weather fields
WeatherMatches(a, api) ==
    LET m == SelectSeq(api, LAMBDA w : w.station_id = a.station_id /\ w.date = a.date)
    IN  IF m = <<>> THEN <<JoinedRow(a, NoCity, NaN, NaN, NaN)>>
        ELSE [j \in 1..Len(m) |->
                JoinedRow(a, m[j].city, m[j].temp_c, m[j].humidity, m[j].precip_mm)]

RECURSIVE MergeWeather(_, _)
MergeWeather(aq, api) ==
    IF aq = <<>> THEN <<>>
    ELSE WeatherMatches(aq[1], api) \o MergeWeather(Tail(aq), api)

\* the rows a left row yields in pd.merge(df, renew, on="city", how="left")
RenewMatches(r, renew) ==
    LET m == SelectSeq(renew, LAMBDA x : x.city = r.city)
    IN  IF m = <<>> THEN <<r>>
        ELSE [j \in 1..Len(m) |-> [r EXCEPT !.renewable_share = m[j].renewable_share]]

RECURSIVE MergeRenew(_, _)
MergeRenew(df, renew) ==
    IF df = <<>> THEN <<>>
    ELSE RenewMatches(df[1], renew) \o MergeRenew(Tail(df), renew)

\* line 49: df["city"] = df["city"].fillna("Unknown")
FillCity(rows) ==
    [i \in 1..Len(rows) |->
        [rows[i] EXCEPT !.city = IF @ = NoCity THEN "Unknown" ELSE @]]

\* lines 55-58, one column: coerce, then fill the nulls with the median
ImputeCol(rows, col) ==
    LET coerced == [i \in 1..Len(rows) |-> [rows[i] EXCEPT ![col] = to_numeric(@)]]
        m == median(Column(coerced, col))
    IN  [i \in 1..Len(rows) |-> [coerced[i] EXCEPT ![col] = fillna(@, m)]]

\* lines 55-58: the loop over temp_c, humidity, precip_mm ("if col in df")
ImputeWeather(rows, columns) ==
    LET r1 == IF "temp_c" \in columns THEN ImputeCol(rows, "temp_c") ELSE rows
        r2 == IF "humidity" \in columns THEN ImputeCol(r1, "humidity") ELSE r1
    IN  IF "precip_mm" \in columns THEN ImputeCol(r2, "precip_mm") ELSE r2

\* lines 62-63: df["renewable_share"].median() is taken over the column as
\* merged, before the coercion; Series.median() of an object column holding a
\* text value raises TypeError
RenewMedianRaises(rows) ==
    \E i \in 1..Len(rows) : rows[i].renewable_share = Str

Key(r) == <<r.station_id, r.date>>

\* line 70: df.drop_duplicates(subset=["station_id", "date"]), keep="first"
RECURSIVE KeepFirst(_, _)
KeepFirst(rows, seen) ==
    IF rows = <<>> THEN <<>>
    ELSE IF Key(rows[1]) \in seen THEN KeepFirst(Tail(rows), seen)
    ELSE <<rows[1]>> \o KeepFirst(Tail(rows), seen \cup {Key(rows[1])})

\* a plausible slip: no subset, so only rows equal in every column are dropped
RECURSIVE KeepFirstWhole(_, _)
KeepFirstWhole(rows, seen) ==
    IF rows = <<>> THEN <<>>
    ELSE IF rows[1] \in seen THEN KeepFirstWhole(Tail(rows), seen)
    ELSE <<rows[1]>> \o KeepFirstWhole(Tail(rows), seen \cup {rows[1]})

drop_duplicates_whole_row(rows) == KeepFirstWhole(rows, {})

\* a plausible slip: keep="last", which keeps the last row of every key
drop_duplicates_keep_last(rows) ==
    LET kept == SelectSeq([i \in 1..Len(rows) |-> [row |-> rows[i], at |-> i]],
                          LAMBDA x : \A j \in (x.at + 1)..Len(rows) :
                                        Key(rows[j]) # Key(x.row))
    IN  [i \in 1..Len(kept) |-> kept[i].row]

drop_duplicates(rows) == KeepFirst(rows, {})

AqColumns == {"station_id", "date", "aqi", "co2_ppm"}

\* lines 45-52: the two joins
Joined(api, aq, renew) ==
    MergeRenew(FillCity(MergeWeather(NormalizeAq(aq), NormalizeApi(api.rows))), renew)

clean_and_join(api, aq, renew, fahrenheit) ==
    LET columns == AqColumns \cup (api.columns \ {"station_id", "date"})
                       \cup {"renewable_share"}
        joined  == Joined(api, aq, renew)
        filled  == ImputeWeather(joined, columns)
    IN  IF RenewMedianRaises(filled)
        THEN [raised |-> "TypeError", df |-> [columns |-> {}, rows |-> <<>>]]
        ELSE
        LET imputed == ImputeCol(filled, "renewable_share")
            df      == [columns |-> columns, rows |-> imputed]
            withF   == IF fahrenheit /\ "temp_c" \in columns
                       THEN add_temp_fahrenheit(df).df
                       ELSE df
        IN  [raised |-> "none",
             df |-> [columns |-> withF.columns, rows |-> drop_duplicates(withF.rows)]]

----------------------------------------------------------------------------
(* compute_kpis: src/transform.py lines 75-127 *)

Window == 7          \* rolling(window=7, ...)
MinPeriods == 1      \* rolling(..., min_periods=1)

\* cities in ascending (string) order, as groupby and sort_values order them
CityOrder == <<"A", "B", "Unknown">>
CityRank(c) == CHOOSE i \in 1..Len(CityOrder) : CityOrder[i] = c

GroupLt(g, h) ==
    \/ CityRank(g[1]) < CityRank(h[1])
    \/ g[1] = h[1] /\ g[2] < h[2]

RECURSIVE SortGroups(_)
SortGroups(gs) ==
    IF gs = {} THEN <<>>
    ELSE LET m == CHOOSE g \in gs : \A h \in gs \ {g} : GroupLt(g, h)
         IN  <<m>> \o SortGroups(gs \ {m})

\* lines 80-83 and 86: groupby(["city", "date"]).agg(mean, mean), sorted by
\* (city, date)
DailyRollup(rows) ==
    LET gs == SortGroups({<<rows[i].city, rows[i].date>> : i \in 1..Len(rows)})
    IN  [k \in 1..Len(gs) |->
            LET members == SelectSeq(rows,
                               LAMBDA r : r.city = gs[k][1] /\ r.date = gs[k][2])
            IN  [city |-> gs[k][1], date |-> gs[k][2],
                 avg_aqi |-> NanMean(Column(members, "aqi")),
                 avg_co2_ppm |-> NanMean(Column(members, "co2_ppm"))]]

Max(a, b) == IF a >= b THEN a ELSE b

\* a plausible slip: the default min_periods (= window), null until 7 values
RollingMeanAtFullWindow(s, i) ==
    LET w == SelectNum(SubSeq(s, Max(1, i - Window + 1), i))
    IN  IF Len(w) < Window THEN NaN ELSE QDivInt(QSum(w), Len(w))

\* s.rolling(window=7, min_periods=1).mean() at position i of the series s:
\* the mean of the non-null values among the last Window positions, NaN when
\* fewer than MinPeriods of them are non-null
RollingMeanAt(s, i) ==
    LET w == SelectNum(SubSeq(s, Max(1, i - Window + 1), i))
    IN  IF Len(w) < MinPeriods THEN NaN ELSE QDivInt(QSum(w), Len(w))

\* the rows of a table that belong to city c, in the table's order
OfCity(daily, c) == SelectSeq(daily, LAMBDA r : r.city = c)

\* the position of row i of the table within its city's rows
PosInCity(daily, i) ==
    Cardinality({j \in 1..i : daily[j].city = daily[i].city})

\* a plausible slip: the rolling mean taken over the whole table, not by city
WithRollingMeanUngrouped(daily) ==
    [i \in 1..Len(daily) |->
        [city |-> daily[i].city, date |-> daily[i].date,
         avg_aqi |-> daily[i].avg_aqi, avg_co2_ppm |-> daily[i].avg_co2_ppm,
         co2_7d_ma |-> RollingMeanAt(Column(daily, "avg_co2_ppm"), i)]]

\* lines 87-90: groupby("city")["avg_co2_ppm"].transform(rolling mean)
WithRollingMean(daily) ==
    [i \in 1..Len(daily) |->
        [city |-> daily[i].city, date |-> daily[i].date,
         avg_aqi |-> daily[i].avg_aqi, avg_co2_ppm |-> daily[i].avg_co2_ppm,
         co2_7d_ma |-> RollingMeanAt(Column(OfCity(daily, daily[i].city), "avg_co2_ppm"),
                                     PosInCity(daily, i))]]

\* Series.diff() at position i of s: null at the first position and whenever
\* an operand is null
DiffAt(s, i) ==
    IF i = 1 \/ ~IsNum(s[i]) \/ ~IsNum(s[i - 1]) THEN NaN
    ELSE QSub(s[i], s[i - 1])

\* a plausible slip: diff() over the whole table, not by city
WithDeltaUngrouped(daily) ==
    [i \in 1..Len(daily) |->
        [city |-> daily[i].city, date |-> daily[i].date,
         avg_aqi |-> daily[i].avg_aqi, avg_co2_ppm |-> daily[i].avg_co2_ppm,
         co2_7d_ma |-> daily[i].co2_7d_ma,
         co2_7d_delta |-> fillna(DiffAt(Column(daily, "co2_7d_ma"), i), Int2Q(0))]]

\* lines 91-93: groupby("city")["co2_7d_ma"].diff().fillna(0.0)
WithDelta(daily) ==
    [i \in 1..Len(daily) |->
        [city |-> daily[i].city, date |-> daily[i].date,
         avg_aqi |-> daily[i].avg_aqi, avg_co2_ppm |-> daily[i].avg_co2_ppm,
         co2_7d_ma |-> daily[i].co2_7d_ma,
         co2_7d_delta |-> fillna(DiffAt(Column(OfCity(daily, daily[i].city), "co2_7d_ma"),
                                        PosInCity(daily, i)),
                                 Int2Q(0))]]

\* a plausible slip: exclusive upper thresholds
aqi_bucket_exclusive(x) ==
    IF IsNum(x) /\ QLt(x, Int2Q(50)) THEN "Good"
    ELSE IF IsNum(x) /\ QLt(x, Int2Q(100)) THEN "Moderate"
    ELSE IF IsNum(x) /\ QLt(x, Int2Q(150)) THEN "Unhealthy for SG"
    ELSE "Unhealthy+"

\* lines 96-100; every comparison with NaN is false
aqi_bucket(x) ==
    IF IsNum(x) /\ QLe(x, Int2Q(50)) THEN "Good"
    ELSE IF IsNum(x) /\ QLe(x, Int2Q(100)) THEN "Moderate"
    ELSE IF IsNum(x) /\ QLe(x, Int2Q(150)) THEN "Unhealthy for SG"
    ELSE "Unhealthy+"

\* lines 102-107: groupby(["city", "aqi_bucket"]).size(), one row per
\* observed pair
AqiCategories(rows) ==
    {[city |-> rows[i].city, aqi_bucket |-> aqi_bucket(rows[i].aqi),
      days_in_bucket |->
          Cardinality({j \in 1..Len(rows) :
                          /\ rows[j].city = rows[i].city
                          /\ aqi_bucket(rows[j].aqi) = aqi_bucket(rows[i].aqi)})]
        : i \in 1..Len(rows)}

\* a plausible slip: head(1), the earliest day of each city
FirstByCity(daily) ==
    {r \in {daily[i] : i \in 1..Len(daily)} :
        \A j \in 1..Len(daily) : daily[j].city = r.city => daily[j].date >= r.date}

\* lines 111-113: sort_values("date").groupby("city").tail(1): per city the
\* rollup row that comes last by date
LastByCity(daily) ==
    {r \in {daily[i] : i \in 1..Len(daily)} :
        \A j \in 1..Len(daily) : daily[j].city = r.city => daily[j].date <= r.date}

\* line 114: df[["city", "renewable_share"]].drop_duplicates("city")
RenewOfCity(rows, c) ==
    LET i == CHOOSE i \in 1..Len(rows) :
                 /\ rows[i].city = c
                 /\ \A j \in 1..(i - 1) : rows[j].city # c
    IN  rows[i].renewable_share

\* lines 116-120; a comparison with NaN is false
AlignmentLabel(renewable_share, avg_aqi) ==
    IF /\ IsNum(renewable_share) /\ QLe(Q(1, 2), renewable_share)
       /\ IsNum(avg_aqi) /\ QLe(avg_aqi, Int2Q(100))
    THEN "Aligned"
    ELSE "Needs Improvement"

\* lines 111-120
Alignment(daily, rows) ==
    {[city |-> r.city, avg_aqi |-> r.avg_aqi,
      renewable_share |-> RenewOfCity(rows, r.city),
      clean_energy_alignment |-> AlignmentLabel(RenewOfCity(rows, r.city), r.avg_aqi)]
        : r \in LastByCity(daily)}

compute_kpis(df) ==
    LET daily_city == WithDelta(WithRollingMean(DailyRollup(df.rows)))
    IN  [daily_city     |-> daily_city,
         aqi_categories |-> AqiCategories(df.rows),
         alignment      |-> Alignment(daily_city, df.rows)]

----------------------------------------------------------------------------
(* Inputs *)

MaxRows == 4         \* rows of the three input tables of a run, together
MaxDays == 8         \* days of the longest daily series given to compute_kpis
MaxUnitRows == 2     \* rows of a table given directly to add_temp_fahrenheit
MaxCalls == 2        \* direct add_temp_fahrenheit calls on one table

Plain(d) == [day |-> d, time |-> ""]
Stamp(d) == [day |-> d, time |-> "00:00:00"]

\* air-quality rows: a station/day read twice (once as a timestamp, with a
\* text aqi and a null co2_ppm), a second day and a second station
AqRows ==
    { [station_id |-> "S1", date |-> Plain(1), aqi |-> Int2Q(90),  co2_ppm |-> Int2Q(400)],
      [station_id |-> "S1", date |-> Stamp(1), aqi |-> Str,        co2_ppm |-> NaN],
      [station_id |-> "S1", date |-> Plain(2), aqi |-> Int2Q(120), co2_ppm |-> Int2Q(412)],
      [station_id |-> "S2", date |-> Plain(1), aqi |-> Int2Q(50),  co2_ppm |-> Int2Q(402)] }

\* weather rows: a station/day reported twice, null and text cells, a null city
ApiRows ==
    { [station_id |-> "S1", date |-> Stamp(1), city |-> "A",
       temp_c |-> Q(103, 10), humidity |-> Int2Q(50), precip_mm |-> Int2Q(0)],
      [station_id |-> "S1", date |-> Plain(1), city |-> NoCity,
       temp_c |-> Int2Q(21), humidity |-> Str, precip_mm |-> NaN],
      [station_id |-> "S2", date |-> Plain(1), city |-> "A",
       temp_c |-> NaN, humidity |-> Int2Q(60), precip_mm |-> Q(6, 5)],
      [station_id |-> "S1", date |-> Plain(2), city |-> "B",
       temp_c |-> Str, humidity |-> NaN, precip_mm |-> Str] }

\* renewable-share rows: a city listed twice, a null share, a text share
RenewRows ==
    { [city |-> "A",       renewable_share |-> Q(3, 5)],
      [city |-> "A",       renewable_share |-> NaN],
      [city |-> "Unknown", renewable_share |-> Q(2, 5)],
      [city |-> "B",       renewable_share |-> Str] }

ApiColumns == {"station_id", "date", "city", "temp_c", "humidity", "precip_mm"}

\* a weather table with or without its temp_c column
ApiTable(rows, has_temp_c) ==
    IF has_temp_c THEN [columns |-> ApiColumns, rows |-> rows]
    ELSE [columns |-> ApiColumns \ {"temp_c"},
          rows |-> [i \in 1..Len(rows) |-> [rows[i] EXCEPT !.temp_c = NaN]]]

EmptyTable == [columns |-> {}, rows |-> <<>>]

\* no fetch under way
NoHttp == [offline |-> TRUE, attempts |-> 0, backoff |-> 0, i |-> 0, requests |-> 0,
           pauses |-> 0, last |-> "none", result |-> "pending", df |-> "none"]
NoKpis == [daily_city |-> <<>>, aqi_categories |-> {}, alignment |-> {}]

EnrichedColumns ==
    AqColumns \cup {"city", "temp_c", "humidity", "precip_mm", "renewable_share"}

----------------------------------------------------------------------------
(* The run of src/main.py, lines 100-106 *)

Init ==
    /\ pc = "start"
    /\ \E a \in 0..MaxRows : \E w \in 0..(MaxRows - a) : \E r \in 0..(MaxRows - a - w) :
         /\ aq_df \in [1..a -> AqRows]
         /\ \E rows \in [1..w -> ApiRows], has_temp_c \in BOOLEAN :
                api_df = ApiTable(rows, has_temp_c)
         /\ renew_df \in [1..r -> RenewRows]
    /\ include_fahrenheit \in BOOLEAN
    /\ enriched = EmptyTable
    /\ raised = "none"
    /\ kpis = NoKpis
    /\ calls = 0
    /\ http = NoHttp

\* line 101: enriched = clean_and_join(api_df, aq_df, renew_df, include_fahrenheit)
CleanAndJoin ==
    /\ pc = "start"
    /\ LET r == clean_and_join(api_df, aq_df, renew_df, include_fahrenheit)
       IN  /\ raised' = r.raised
           /\ enriched' = r.df
           /\ pc' = IF r.raised = "none" THEN "joined" ELSE "failed"
    /\ UNCHANGED <<api_df, aq_df, renew_df, include_fahrenheit, kpis, calls, http>>

\* lines 102-103: if args.include_fahrenheit: enriched = add_temp_fahrenheit(enriched)
MainAddTempFahrenheit ==
    /\ pc = "joined"
    /\ IF include_fahrenheit
       THEN LET r == add_temp_fahrenheit(enriched)
            IN  /\ raised' = r.raised
                /\ enriched' = r.df
                /\ calls' = calls + 1
                /\ pc' = IF r.raised = "none" THEN "enriched" ELSE "failed"
       ELSE /\ pc' = "enriched"
            /\ UNCHANGED <<raised, enriched, calls>>
    /\ UNCHANGED <<api_df, aq_df, renew_df, include_fahrenheit, kpis, http>>

\* line 106: kpis = compute_kpis(enriched)
ComputeKpis ==
    /\ pc = "enriched"
    /\ kpis' = compute_kpis(enriched)
    /\ pc' = "done"
    /\ UNCHANGED <<api_df, aq_df, renew_df, include_fahrenheit, enriched, raised, calls, http>>

Next == CleanAndJoin \/ MainAddTempFahrenheit \/ ComputeKpis

Spec == Init /\ [][Next]_vars

----------------------------------------------------------------------------
(* Claims about clean_and_join, checked under Spec *)

Returned == pc = "joined"     \* clean_and_join has just returned `enriched`

Keys(rows) == {Key(rows[i]) : i \in 1..Len(rows)}

\* the air-quality input's keys, dates in their canonical calendar form
AqKeys == {<<aq_df[i].station_id, to_date_str(aq_df[i].date)>> : i \in 1..Len(aq_df)}
ApiKeys ==
    {<<api_df.rows[i].station_id, to_date_str(api_df.rows[i].date)>> :
        i \in 1..Len(api_df.rows)}
RenewCities == {renew_df[i].city : i \in 1..Len(renew_df)}

\* C1: the table returned by clean_and_join holds no two rows with the same
\* (station_id, date), whatever repetitions the three inputs hold.
C1_UniqueKeys ==
    Returned =>
        \A i, j \in 1..Len(enriched.rows) :
            Key(enriched.rows[i]) = Key(enriched.rows[j]) => i = j

\* a run whose air-quality input reads a station/day twice, differently, and
\* whose renewable table lists twice the city of a returned row
C1_Witness ==
    /\ Returned
    /\ \E i, j \in 1..Len(aq_df) :
           /\ aq_df[i] # aq_df[j]
           /\ aq_df[i].station_id = aq_df[j].station_id
           /\ to_date_str(aq_df[i].date) = to_date_str(aq_df[j].date)
    /\ \E i, j \in 1..Len(renew_df) :
           /\ i # j /\ renew_df[i].city = renew_df[j].city
           /\ \E k \in 1..Len(enriched.rows) : enriched.rows[k].city = renew_df[i].city
    /\ Len(enriched.rows) >= 1

\* C2: left-join semantics on the air-quality table: the keys of the enriched
\* table are exactly the keys of the air-quality input (no air-quality row is
\* dropped for want of a weather row or a renewable record, and nothing comes
\* from the right tables alone).
C2_LeftJoinKeys ==
    Returned => Keys(enriched.rows) = AqKeys

\* a run with an air-quality row without weather, a weather row without
\* air-quality, a row whose city has no renewable record, and a renewable
\* record of a city no row has
C2_Witness ==
    /\ Returned
    /\ AqKeys \ ApiKeys # {}
    /\ ApiKeys \ AqKeys # {}
    /\ \E k \in 1..Len(enriched.rows) : enriched.rows[k].city \notin RenewCities
    /\ \E c \in RenewCities :
           \A k \in 1..Len(enriched.rows) : enriched.rows[k].city # c

\* clean_and_join has been called and has returned or raised
AfterCleanAndJoin == pc = "joined" \/ (pc = "failed" /\ calls = 0)

\* the joined dataset of the run as it stands before the fills (lines 45-52)
JoinedRows == Joined(api_df, aq_df, renew_df)

NumbersOf(rows, col) == SelectNum(Column(rows, col))

\* x is the k-th smallest of the numbers vals
IsKth(vals, k, x) ==
    /\ \E i \in 1..Len(vals) : vals[i] = x
    /\ Cardinality({i \in 1..Len(vals) : QLt(vals[i], x)}) < k
    /\ k <= Cardinality({i \in 1..Len(vals) : QLe(vals[i], x)})

\* m is the median of the numbers vals (null when there is none)
IsMedianOf(vals, m) ==
    LET n == Len(vals)
    IN  IF n = 0 THEN m = NaN
        ELSE IF n % 2 = 1 THEN IsKth(vals, (n + 1) \div 2, m)
        ELSE \E i, j \in 1..n :
                /\ IsKth(vals, n \div 2, vals[i])
                /\ IsKth(vals, n \div 2 + 1, vals[j])
                /\ m = QDivInt(QAdd(vals[i], vals[j]), 2)

\* the row of the joined dataset a returned row stems from: the first with its key
SourceRow(e) ==
    JoinedRows[CHOOSE i \in 1..Len(JoinedRows) :
                  /\ Key(JoinedRows[i]) = Key(e)
                  /\ \A j \in 1..(i - 1) : Key(JoinedRows[j]) # Key(e)]

\* every cell of column col of the returned table is its number, unchanged, or,
\* where the joined dataset held a null or a text, the median of the column's
\* numbers over the whole joined dataset
ImputedColumn(col) ==
    \A k \in 1..Len(enriched.rows) :
        LET e == enriched.rows[k]
            src == SourceRow(e)[col]
        IN  IF IsNum(src) THEN e[col] = src
            ELSE IsMedianOf(NumbersOf(JoinedRows, col), e[col])

ImputedColumns == {"temp_c", "humidity", "precip_mm", "renewable_share"}

C3_ValuesImputed ==
    \A col \in ImputedColumns \cap enriched.columns : ImputedColumn(col)

\* C3: for temp_c, humidity, precip_mm and renewable_share, clean_and_join
\* treats a non-numeric value as null and fills every null with the column's
\* median over the joined dataset before deduplication, leaving numbers
\* alone, and never raises.
C3_Imputation ==
    AfterCleanAndJoin => raised = "none" /\ C3_ValuesImputed

\* the part of C3 the code keeps: whenever clean_and_join returns, the four
\* columns are filled as C3 says
C3_ImputationWhenReturned == Returned => C3_ValuesImputed

\* f is round(c * 9 / 5 + 32, 1): a null for a null c, else the multiple of
\* 1/10 nearest to c * 9 / 5 + 32 (the even one of two equally near)
IsFahrenheitOf(f, c) ==
    IF ~IsNum(c) THEN f = NaN
    ELSE LET x  == QAdd(Q(c[2] * 9, c[3] * 5), Int2Q(32))
             m  == f[2] * (10 \div f[3])            \* f = m / 10
             e2 == Abs(2 * (10 * x[2] - m * x[3]))  \* 2 * |10 x - m| * x[3]
         IN  /\ IsNum(f)
             /\ 10 % f[3] = 0
             /\ e2 <= x[3]
             /\ e2 = x[3] => m % 2 = 0

\* C8: with Fahrenheit requested, every row of the table returned by
\* clean_and_join has temp_f = round(temp_c * 9/5 + 32, 1) for the temp_c the
\* row holds in that table (after imputation).
C8_FahrenheitOfImputed ==
    (Returned /\ include_fahrenheit /\ "temp_c" \in enriched.columns) =>
        /\ "temp_f" \in enriched.columns
        /\ \A k \in 1..Len(enriched.rows) :
              IsFahrenheitOf(enriched.rows[k].temp_f, enriched.rows[k].temp_c)

\* a returned table with a row whose temp_c was filled by the median and a
\* row whose conversion had to be rounded
C8_Witness ==
    /\ Returned /\ include_fahrenheit /\ "temp_f" \in enriched.columns
    /\ \E k \in 1..Len(enriched.rows) :
          /\ ~IsNum(SourceRow(enriched.rows[k]).temp_c)
          /\ IsNum(enriched.rows[k].temp_f)
    /\ \E k \in 1..Len(enriched.rows) :
          /\ IsNum(enriched.rows[k].temp_c)
          /\ enriched.rows[k].temp_f # c_to_f_unrounded(enriched.rows[k].temp_c)

\* C9 as stated: with Fahrenheit requested and no temp_c column, both
\* clean_and_join and a direct add_temp_fahrenheit call fail with the
\* missing-column error instead of returning a table.
C9_MissingColumnAlwaysRaises ==
    /\ (AfterCleanAndJoin /\ include_fahrenheit /\ "temp_c" \notin api_df.columns)
           => (pc = "failed" /\ raised = "KeyError")
    /\ (calls >= 1 /\ "temp_c" \notin enriched.columns)
           => (pc = "failed" /\ raised = "KeyError")

\* C9 as amended: a direct add_temp_fahrenheit call on a table without temp_c
\* (main's, after clean_and_join) fails with the missing-column error and
\* hands no table on; clean_and_join itself never raises that error: asked
\* for Fahrenheit on a weather table without temp_c, a table it returns has
\* neither temp_c nor temp_f.
C9_DirectCallRaises ==
    /\ AfterCleanAndJoin => raised # "KeyError"
    /\ (Returned /\ include_fahrenheit /\ "temp_c" \notin api_df.columns)
           => ("temp_c" \notin enriched.columns /\ "temp_f" \notin enriched.columns)
    /\ (calls >= 1 /\ "temp_c" \notin enriched.columns)
           => (pc = "failed" /\ raised = "KeyError")
    /\ (pc \in {"enriched", "done"} /\ include_fahrenheit)
           => {"temp_c", "temp_f"} \subseteq enriched.columns

\* clean_and_join returned a table without temp_f and main's call then raised
C9_Witness ==
    /\ pc = "failed" /\ raised = "KeyError" /\ calls = 1
    /\ include_fahrenheit /\ "temp_c" \notin api_df.columns
    /\ Len(enriched.rows) >= 1

----------------------------------------------------------------------------
(* add_temp_fahrenheit called directly, once and again, on a table *)

TempCVals == {Q(103, 10), Int2Q(21), NaN}
TempFVals == {Q(101, 2), Q(2527, 50), NaN}    \* 50.5, 50.54 (not rounded), null

UnitRow(i, temp_c, temp_f) ==
    [station_id |-> "S1", date |-> i, aqi |-> Int2Q(90), co2_ppm |-> Int2Q(400),
     city |-> "A", temp_c |-> temp_c, humidity |-> Int2Q(50),
     precip_mm |-> Int2Q(0), renewable_share |-> Q(3, 5), temp_f |-> temp_f]

InitUnit ==
    /\ pc = "unit"
    /\ \E n \in 0..MaxUnitRows, has_temp_c \in BOOLEAN, has_temp_f \in BOOLEAN :
         \E tc \in [1..n -> IF has_temp_c THEN TempCVals ELSE {NaN}],
            tf \in [1..n -> IF has_temp_f THEN TempFVals ELSE {NaN}] :
            enriched =
                [columns |-> (EnrichedColumns \ {"temp_c"})
                                \cup (IF has_temp_c THEN {"temp_c"} ELSE {})
                                \cup (IF has_temp_f THEN {"temp_f"} ELSE {}),
                 rows |-> [i \in 1..n |-> UnitRow(i, tc[i], tf[i])]]
    /\ api_df = EmptyTable
    /\ aq_df = <<>>
    /\ renew_df = <<>>
    /\ include_fahrenheit = TRUE
    /\ raised = "none"
    /\ kpis = NoKpis
    /\ calls = 0
    /\ http = NoHttp

\* enriched = add_temp_fahrenheit(enriched)
AddTempFahrenheit ==
    /\ pc = "unit"
    /\ calls < MaxCalls
    /\ LET r == add_temp_fahrenheit(enriched)
       IN  /\ raised' = r.raised
           /\ enriched' = r.df
           /\ pc' = IF r.raised = "none" THEN "unit" ELSE "failed"
    /\ calls' = calls + 1
    /\ UNCHANGED <<api_df, aq_df, renew_df, include_fahrenheit, kpis, http>>

NextUnit == AddTempFahrenheit

SpecUnit == InitUnit /\ [][NextUnit]_vars

\* C10: a call of add_temp_fahrenheit on a table that already has a temp_f
\* column leaves the table as it is, so a second call changes nothing the
\* first one left.
C10_Idempotent ==
    [][(pc = "unit" /\ "temp_f" \in enriched.columns) => enriched' = enriched]_vars

\* two calls were made on a table whose temp_f is not what temp_c converts to
C10_Witness ==
    /\ pc = "unit" /\ calls = 2
    /\ "temp_f" \in enriched.columns
    /\ \E k \in 1..Len(enriched.rows) :
          enriched.rows[k].temp_f # c_to_f(enriched.rows[k].temp_c)

----------------------------------------------------------------------------
(* compute_kpis called on an enriched table *)

MaxShort == 3        \* rows of a short enriched table given to compute_kpis

Co2Vals == {Int2Q(400), Int2Q(412), NaN}
AqiVals == {Int2Q(50), Int2Q(51), Int2Q(100), Int2Q(101), Int2Q(150), Int2Q(151), NaN}
ShareVals == {Q(2, 5), Q(1, 2), NaN}

EnrichedRow(station_id, date, city, aqi, co2_ppm, renewable_share) ==
    [station_id |-> station_id, date |-> date, aqi |-> aqi, co2_ppm |-> co2_ppm,
     city |-> city, temp_c |-> Int2Q(10), humidity |-> Int2Q(50),
     precip_mm |-> Int2Q(0), renewable_share |-> renewable_share, temp_f |-> NaN]

\* a long daily series: station S1 of city A on days n, n-1, ..., 1 (latest
\* first), then, if with_b, station S2 of city B on day 1
LongTable(n, co2, with_b) ==
    [i \in 1..n |->
        EnrichedRow("S1", n + 1 - i, "A", Int2Q(90), co2[n + 1 - i], Q(3, 5))]
    \o (IF with_b
        THEN <<EnrichedRow("S2", 1, "B", Int2Q(120), Int2Q(500), Q(2, 5))>>
        ELSE <<>>)

\* a short table: rows on distinct station/days (S1 and S2 on day 1, then on
\* day 2, ...), the first m of city A and the rest of city B, with any aqi;
\* one share per city
ShortTable(n, city, aqi, share_a) ==
    [i \in 1..n |->
        EnrichedRow(IF i % 2 = 1 THEN "S1" ELSE "S2", (i + 1) \div 2, city[i], aqi[i],
                    Int2Q(400), IF city[i] = "A" THEN share_a ELSE Q(3, 5))]

InitKpi ==
    /\ pc = "enriched"
    /\ \/ \E n \in 0..MaxDays : \E co2 \in [1..n -> Co2Vals], with_b \in BOOLEAN :
             enriched = [columns |-> EnrichedColumns,
                         rows |-> LongTable(n, co2, with_b)]
       \/ \E n \in 1..MaxShort :
             \E m \in 0..n, aqi \in [1..n -> AqiVals], share_a \in ShareVals :
             enriched = [columns |-> EnrichedColumns,
                         rows |-> ShortTable(n, [i \in 1..n |-> IF i <= m THEN "A" ELSE "B"],
                                             aqi, share_a)]
    /\ api_df = EmptyTable
    /\ aq_df = <<>>
    /\ renew_df = <<>>
    /\ include_fahrenheit = FALSE
    /\ raised = "none"
    /\ kpis = NoKpis
    /\ calls = 0
    /\ http = NoHttp

NextKpi == ComputeKpis

SpecKpi == InitKpi /\ [][NextKpi]_vars

----------------------------------------------------------------------------
(* Claims about compute_kpis, checked under SpecKpi *)

Done == pc = "done"           \* compute_kpis has returned `kpis`

Daily == kpis.daily_city
DailyIdx == 1..Len(Daily)

RECURSIVE SumAt(_, _)
\* the sum of the numbers s[i], i in idxs
SumAt(s, idxs) ==
    IF idxs = {} THEN Int2Q(0)
    ELSE LET i == CHOOSE i \in idxs : TRUE
         IN  QAdd(s[i], SumAt(s, idxs \ {i}))

\* the rollup rows of the city of row k dated before row k
Before(k) ==
    {j \in DailyIdx : Daily[j].city = Daily[k].city /\ Daily[j].date < Daily[k].date}

\* row k is the i-th of its city by date; its window is the city's rows
\* max(1, i-6)..i: those up to row k with at most 6 of the city's rows after them
WindowOf(k) ==
    LET upto == Before(k) \cup {k}
    IN  {j \in upto : Cardinality({l \in upto : Daily[j].date < Daily[l].date}) <= 6}

NumbersIn(k) == {j \in WindowOf(k) : IsNum(Daily[j].avg_co2_ppm)}

\* co2_7d_ma of row k is the mean of the non-null avg_co2_ppm of its window
MeanOfWindow(k) ==
    LET nums == NumbersIn(k)
    IN  IF nums = {} THEN Daily[k].co2_7d_ma = NaN
        ELSE Daily[k].co2_7d_ma =
                 QDivInt(SumAt(Column(Daily, "avg_co2_ppm"), nums), Cardinality(nums))

\* each city's rollup rows lie in ascending date order, one per date
AscendingByCity ==
    \A j, k \in DailyIdx :
        (j < k /\ Daily[j].city = Daily[k].city) => Daily[j].date < Daily[k].date

\* C4 as stated: co2_7d_ma of the i-th row of a city is the mean of
\* avg_co2_ppm over the city's rows max(1, i-6)..i, no other city's rows, and
\* is never null.
C4_RollingMeanNeverNull ==
    Done => /\ AscendingByCity
            /\ \A k \in DailyIdx : MeanOfWindow(k) /\ IsNum(Daily[k].co2_7d_ma)

\* C4 as amended: co2_7d_ma of the i-th row of a city is the mean of the
\* non-null avg_co2_ppm values of the city's rows max(1, i-6)..i, no other
\* city's rows; it is null exactly when all those values are null, never
\* because fewer than 7 rows are available.
C4_RollingMean ==
    Done => /\ AscendingByCity
            /\ \A k \in DailyIdx : MeanOfWindow(k)

\* a city with eight days whose first value has left the window of the
\* eighth, next to another city, with a null value inside a window
C4_Witness ==
    /\ Done
    /\ \E k, f \in DailyIdx :
          /\ Cardinality(Before(k)) = 7
          /\ f \in Before(k) /\ Before(f) = {}
          /\ IsNum(Daily[f].avg_co2_ppm) /\ IsNum(Daily[k].co2_7d_ma)
          /\ Daily[f].avg_co2_ppm # Daily[k].co2_7d_ma
          /\ \E j \in WindowOf(k) : ~IsNum(Daily[j].avg_co2_ppm)
    /\ \E k \in DailyIdx : Daily[k].city = "B"

\* the rollup row just before row k in its city, if any
PrevOf(k) == {j \in Before(k) : \A l \in Before(k) : Daily[l].date <= Daily[j].date}

NonDecreasing(c) ==
    \A j, k \in DailyIdx :
        (/\ Daily[j].city = c /\ Daily[k].city = c /\ Daily[j].date < Daily[k].date
         /\ IsNum(Daily[j].avg_co2_ppm) /\ IsNum(Daily[k].avg_co2_ppm))
            => QLe(Daily[j].avg_co2_ppm, Daily[k].avg_co2_ppm)

NonNegativeWhenNonDecreasing ==
    \A k \in DailyIdx :
        NonDecreasing(Daily[k].city) => QLe(Int2Q(0), Daily[k].co2_7d_delta)

\* C5 as stated: co2_7d_delta is 0.0 on the earliest row of every city and on
\* every other row the row's co2_7d_ma minus that of the city's preceding row;
\* so it is non-negative along a non-decreasing avg_co2_ppm series.
C5_DeltaIsDifference ==
    Done =>
        /\ \A k \in DailyIdx :
              /\ Before(k) = {} => Daily[k].co2_7d_delta = Int2Q(0)
              /\ \A j \in PrevOf(k) :
                    Daily[k].co2_7d_delta = DiffAt(<<Daily[j].co2_7d_ma, Daily[k].co2_7d_ma>>, 2)
        /\ NonNegativeWhenNonDecreasing

\* C5 as amended: co2_7d_delta is 0.0 on the earliest row of every city; on
\* every other row it is the row's co2_7d_ma minus that of the city's
\* preceding row when both are non-null, and 0.0 when either is null; it is
\* non-negative along a series whose non-null avg_co2_ppm values are
\* non-decreasing.
C5_Delta ==
    Done =>
        /\ \A k \in DailyIdx :
              /\ Before(k) = {} => Daily[k].co2_7d_delta = Int2Q(0)
              /\ \A j \in PrevOf(k) :
                    Daily[k].co2_7d_delta =
                        IF IsNum(Daily[j].co2_7d_ma) /\ IsNum(Daily[k].co2_7d_ma)
                        THEN QSub(Daily[k].co2_7d_ma, Daily[j].co2_7d_ma)
                        ELSE Int2Q(0)
        /\ NonNegativeWhenNonDecreasing

\* a non-decreasing city with a rising delta and a row after a null
\* co2_7d_ma, followed in the table by the first row of another city
C5_Witness ==
    /\ Done
    /\ \E k \in DailyIdx :
          /\ NonDecreasing(Daily[k].city)
          /\ QLt(Int2Q(0), Daily[k].co2_7d_delta)
          /\ \E j \in Before(k) : ~IsNum(Daily[j].co2_7d_ma)
    /\ \E k \in DailyIdx : k > 1 /\ Before(k) = {} /\ Daily[k - 1].city # Daily[k].city

Rows == enriched.rows
RowIdx == 1..Len(Rows)
CitiesOf(rows) == {rows[i].city : i \in 1..Len(rows)}

Buckets == {"Good", "Moderate", "Unhealthy for SG", "Unhealthy+"}

\* aqi falls in bucket b: upper thresholds inclusive, anything else Unhealthy+
InBucket(aqi, b) ==
    LET le(t) == IsNum(aqi) /\ QLe(aqi, Int2Q(t))
    IN  CASE b = "Good"             -> le(50)
          [] b = "Moderate"         -> ~le(50) /\ le(100)
          [] b = "Unhealthy for SG" -> ~le(100) /\ le(150)
          [] b = "Unhealthy+"       -> ~le(150)

RowsIn(c, b) == {i \in RowIdx : Rows[i].city = c /\ InBucket(Rows[i].aqi, b)}

RECURSIVE SumDays(_)
SumDays(cats) ==
    IF cats = {} THEN 0
    ELSE LET x == CHOOSE x \in cats : TRUE
         IN  x.days_in_bucket + SumDays(cats \ {x})

\* C6: for every city and bucket, days_in_bucket is the number of enriched
\* rows of the city whose aqi falls in the bucket (<= 50 Good, <= 100
\* Moderate, <= 150 Unhealthy for SG, anything else Unhealthy+); every row is
\* counted in exactly one bucket, so a city's counts sum to its rows.
C6_BucketCounts ==
    Done =>
        /\ \A x \in kpis.aqi_categories :
              x.city \in CitiesOf(Rows) /\ x.aqi_bucket \in Buckets
        /\ \A c \in CitiesOf(Rows) :
              /\ \A b \in Buckets :
                    LET n == Cardinality(RowsIn(c, b))
                        of_cb == {x \in kpis.aqi_categories :
                                     x.city = c /\ x.aqi_bucket = b}
                    IN  IF n = 0 THEN of_cb = {}
                        ELSE of_cb = {[city |-> c, aqi_bucket |-> b, days_in_bucket |-> n]}
              /\ SumDays({x \in kpis.aqi_categories : x.city = c})
                     = Cardinality({i \in RowIdx : Rows[i].city = c})

\* a city with a row at a threshold, a row just above the threshold below
\* (two days in one bucket), and a row with a null aqi
C6_Witness ==
    /\ Done
    /\ \E i, j, k \in RowIdx :
          /\ Rows[i].city = Rows[j].city /\ Rows[j].city = Rows[k].city
          /\ Rows[i].aqi = Int2Q(150) /\ Rows[j].aqi = Int2Q(101) /\ Rows[k].aqi = NaN
    /\ \E x \in kpis.aqi_categories : x.days_in_bucket = 2

\* the rollup row of city c with the latest date
LatestOf(c) ==
    {k \in DailyIdx :
        /\ Daily[k].city = c
        /\ \A j \in DailyIdx : Daily[j].city = c => Daily[j].date <= Daily[k].date}

\* C7: the alignment table has exactly one row per city of the enriched
\* table; its avg_aqi is that of the city's rollup row with the latest date;
\* its label is Aligned iff the city's renewable_share >= 0.5 and that
\* avg_aqi <= 100, else Needs Improvement (so also for a null share).
C7_Alignment ==
    Done =>
        /\ \A x \in kpis.alignment : x.city \in CitiesOf(Rows)
        /\ \A c \in CitiesOf(Rows) :
              \E x \in kpis.alignment :
                 /\ {y \in kpis.alignment : y.city = c} = {x}
                 /\ \E k \in LatestOf(c) : x.avg_aqi = Daily[k].avg_aqi
                 /\ \A i \in RowIdx : Rows[i].city = c =>
                        x.renewable_share = Rows[i].renewable_share
                 /\ x.clean_energy_alignment \in {"Aligned", "Needs Improvement"}
                 /\ x.clean_energy_alignment = "Aligned" <=>
                        /\ IsNum(x.renewable_share) /\ QLe(Q(1, 2), x.renewable_share)
                        /\ IsNum(x.avg_aqi) /\ QLe(x.avg_aqi, Int2Q(100))

\* an Aligned city whose earlier day was above 100, next to a city with a
\* null share and a clean latest day
C7_Witness ==
    /\ Done
    /\ \E x \in kpis.alignment :
          /\ x.clean_energy_alignment = "Aligned"
          /\ \E k \in DailyIdx :
                /\ Daily[k].city = x.city /\ k \notin LatestOf(x.city)
                /\ QLt(Int2Q(100), Daily[k].avg_aqi)
    /\ \E x \in kpis.alignment :
          /\ x.renewable_share = NaN
          /\ IsNum(x.avg_aqi) /\ QLe(x.avg_aqi, Int2Q(100))
          /\ x.clean_energy_alignment = "Needs Improvement"

----------------------------------------------------------------------------
(* Claims about the order of the rows of clean_and_join, checked under Spec *)

\* the canonical key of the i-th row of the air-quality input
AqKey(i) == <<aq_df[i].station_id, to_date_str(aq_df[i].date)>>

\* the position in the air-quality input of the first row with key k
FirstAq(k) ==
    CHOOSE i \in 1..Len(aq_df) : AqKey(i) = k /\ \A j \in 1..(i - 1) : AqKey(j) # k

\* the positions in the weather input of the rows with key k
WeatherOf(k) ==
    {i \in 1..Len(api_df.rows) :
        <<api_df.rows[i].station_id, to_date_str(api_df.rows[i].date)>> = k}

\* the first weather row with key k
FirstWeather(k) ==
    api_df.rows[CHOOSE i \in WeatherOf(k) : \A j \in WeatherOf(k) : i <= j]

\* the positions in the renewable-share input of the rows of city c
RenewOf(c) == {i \in 1..Len(renew_df) : renew_df[i].city = c}

FirstRenew(c) == renew_df[CHOOSE i \in RenewOf(c) : \A j \in RenewOf(c) : i <= j]

\* the returned row e carries the cells of the first air-quality row with its
\* key, of the first weather row with that key and of the first renewable
\* record of its city (a cell that is not a number is filled, see C3)
FromFirstRows(e) ==
    LET k == Key(e)
        a == aq_df[FirstAq(k)]
    IN  /\ e.aqi = to_numeric(a.aqi)
        /\ e.co2_ppm = to_numeric(a.co2_ppm)
        /\ IF WeatherOf(k) = {} THEN e.city = "Unknown"
           ELSE LET w == FirstWeather(k)
                IN  /\ e.city = IF w.city = NoCity THEN "Unknown" ELSE w.city
                    /\ \A col \in {"temp_c", "humidity", "precip_mm"} \cap api_df.columns :
                           IsNum(w[col]) => e[col] = w[col]
        /\ (RenewOf(e.city) # {} /\ IsNum(FirstRenew(e.city).renewable_share))
               => e.renewable_share = FirstRenew(e.city).renewable_share

\* C11: of the joined rows that share a (station_id, date) key the enriched
\* table keeps the first in input order (the order of the air-quality table,
\* then of the matching right-side rows), and the kept rows stand in the
\* relative order of the air-quality input.
C11_KeepsFirstInOrder ==
    Returned =>
        /\ \A i \in 1..Len(enriched.rows) : FromFirstRows(enriched.rows[i])
        /\ \A i, j \in 1..Len(enriched.rows) :
               i < j => FirstAq(Key(enriched.rows[i])) < FirstAq(Key(enriched.rows[j]))

\* a run whose weather table reports one station/day twice with different
\* cities and temperatures, the later report being a number too, and whose
\* air-quality table lists station S2 before S1, both of them kept
C11_Witness ==
    /\ Returned
    /\ \E k \in AqKeys : \E i, j \in WeatherOf(k) :
           /\ i < j
           /\ api_df.rows[i].city # api_df.rows[j].city
           /\ IsNum(api_df.rows[i].temp_c) /\ IsNum(api_df.rows[j].temp_c)
           /\ api_df.rows[i].temp_c # api_df.rows[j].temp_c
           /\ "temp_c" \in api_df.columns
    /\ Len(enriched.rows) = 2
    /\ enriched.rows[1].station_id = "S2"
    /\ enriched.rows[2].station_id = "S1"

----------------------------------------------------------------------------
(* Repeated calls on the caller's tables: clean_and_join and compute_kpis  *)
(* called again and again, in any order, on the same table objects         *)

MaxCallRows == 3     \* rows of the three input tables, together
MaxRuns == 4         \* calls of clean_and_join and compute_kpis on the same tables

\* a plausible slip: no .copy(), so the assignments of lines 37-43 land in the
\* caller's weather and air-quality tables
CallerTablesAliased(api, aq, renew) ==
    [api_df |-> [api EXCEPT !.rows =
                    [i \in 1..Len(@) |->
                        [@[i] EXCEPT !.date = Plain(to_date_str(@)),
                                     !.city = IF @ = NoCity THEN "Unknown" ELSE @]]],
     aq_df |-> [i \in 1..Len(aq) |->
                  [aq[i] EXCEPT !.date = Plain(to_date_str(@)),
                                !.aqi = to_numeric(@),
                                !.co2_ppm = to_numeric(@)]],
     renew_df |-> renew]

\* lines 32-34: api, aq and renew are copies, and every later assignment of
\* clean_and_join goes to the copies or to the merged table; the tables the
\* caller passed are, after the call, what they were
CallerTables(api, aq, renew) ==
    [api_df |-> api, aq_df |-> aq, renew_df |-> renew]

\* lines 76-77, 102: d = df.copy() takes the date conversion and the aqi_bucket
\* column; line 114 only reads df
KpiCallerTable(df) == df

InitCalls ==
    /\ pc = "start"
    /\ \E a \in 0..MaxCallRows : \E w \in 0..(MaxCallRows - a) :
         \E r \in 0..(MaxCallRows - a - w) :
         /\ aq_df \in [1..a -> AqRows]
         /\ \E rows \in [1..w -> ApiRows], has_temp_c \in BOOLEAN :
                api_df = ApiTable(rows, has_temp_c)
         /\ renew_df \in [1..r -> RenewRows]
    /\ include_fahrenheit \in BOOLEAN
    /\ enriched = EmptyTable
    /\ raised = "none"
    /\ kpis = NoKpis
    /\ calls = 0
    /\ http = NoHttp

\* enriched = clean_and_join(api_df, aq_df, renew_df, include_fahrenheit)
CallCleanAndJoin ==
    /\ pc \in {"start", "joined", "done", "failed"}
    /\ calls < MaxRuns
    /\ LET r == clean_and_join(api_df, aq_df, renew_df, include_fahrenheit)
           t == CallerTables(api_df, aq_df, renew_df)
       IN  /\ raised' = r.raised
           /\ enriched' = r.df
           /\ pc' = IF r.raised = "none" THEN "joined" ELSE "failed"
           /\ api_df' = t.api_df
           /\ aq_df' = t.aq_df
           /\ renew_df' = t.renew_df
    /\ calls' = calls + 1
    /\ UNCHANGED <<include_fahrenheit, kpis, http>>

\* kpis = compute_kpis(enriched)
CallComputeKpis ==
    /\ pc \in {"joined", "done"}
    /\ calls < MaxRuns
    /\ kpis' = compute_kpis(enriched)
    /\ enriched' = KpiCallerTable(enriched)
    /\ pc' = "done"
    /\ calls' = calls + 1
    /\ UNCHANGED <<api_df, aq_df, renew_df, include_fahrenheit, raised, http>>

NextCalls == CallCleanAndJoin \/ CallComputeKpis

SpecCalls == InitCalls /\ [][NextCalls]_vars

----------------------------------------------------------------------------
(* fetch_external_data and _http_get: src/fetch_api.py lines 41-123 *)

MaxAttempts == 3     \* largest API_RETRY_ATTEMPTS of a fetch

\* what one requests.get can come to: a status code or a RequestException
Responses == {"200", "404", "429", "500", "RequestException"}

\* API_BACKOFF_SECONDS, in tenths of a second
Backoffs == {0, 15}

\* line 53: dt is the datetime module, so dt.time is the class datetime.time,
\* which has no attribute sleep: evaluating dt.time.sleep raises
\* AttributeError before any pause is taken
dt_time_sleep == "AttributeError"

InitHttp ==
    /\ pc = "fetch"
    /\ \E offline \in BOOLEAN, attempts \in 0..MaxAttempts, backoff \in Backoffs :
          http = [NoHttp EXCEPT !.offline = offline, !.attempts = attempts,
                                !.backoff = backoff]
    /\ api_df = EmptyTable
    /\ aq_df = <<>>
    /\ renew_df = <<>>
    /\ include_fahrenheit = FALSE
    /\ enriched = EmptyTable
    /\ raised = "none"
    /\ kpis = NoKpis
    /\ calls = 0

\* lines 64-87: offline simulates at once, online calls _http_get
FetchExternalData ==
    /\ pc = "fetch"
    /\ IF http.offline
       THEN /\ http' = [http EXCEPT !.df = "simulated"]
            /\ pc' = "fetched"
       ELSE /\ pc' = "loop"
            /\ UNCHANGED http
    /\ UNCHANGED <<api_df, aq_df, renew_df, include_fahrenheit, enriched, raised, kpis, calls>>

\* lines 43-51: one pass of the loop body up to the backoff test
HttpRequest ==
    /\ pc = "loop"
    /\ http.i < http.attempts
    /\ \E resp \in Responses :
          /\ http' = [http EXCEPT !.requests = @ + 1, !.last = resp,
                                  !.result = IF resp = "200" THEN "json" ELSE @]
          /\ pc' = IF resp = "200" THEN "returned" ELSE "backoff"
    /\ UNCHANGED <<api_df, aq_df, renew_df, include_fahrenheit, enriched, raised, kpis, calls>>

\* lines 52-53: if i < attempts - 1: dt.time.sleep(backoff)
HttpBackoff ==
    /\ pc = "backoff"
    /\ IF http.i < http.attempts - 1
       THEN IF dt_time_sleep = "slept"
            THEN /\ http' = [http EXCEPT !.pauses = @ + 1, !.i = @ + 1]
                 /\ pc' = "loop"
                 /\ UNCHANGED raised
            ELSE /\ http' = [http EXCEPT !.result = dt_time_sleep]
                 /\ raised' = dt_time_sleep
                 /\ pc' = "raised"
       ELSE /\ http' = [http EXCEPT !.i = @ + 1]
            /\ pc' = "loop"
            /\ UNCHANGED raised
    /\ UNCHANGED <<api_df, aq_df, renew_df, include_fahrenheit, enriched, kpis, calls>>

\* line 54: the loop is exhausted
HttpReturnNone ==
    /\ pc = "loop"
    /\ http.i >= http.attempts
    /\ http' = [http EXCEPT !.result = "None"]
    /\ pc' = "returned"
    /\ UNCHANGED <<api_df, aq_df, renew_df, include_fahrenheit, enriched, raised, kpis, calls>>

\* lines 88-123: a body with results is parsed; no body, an empty body and
\* any exception (except Exception) fall back to the simulation
FetchFinish ==
    /\ pc \in {"returned", "raised"}
    /\ \E results \in {"rows", "empty"} :
          http' = [http EXCEPT !.df = IF pc = "returned" /\ http.result = "json"
                                           /\ results = "rows"
                                        THEN "fetched" ELSE "simulated"]
    /\ raised' = "none"
    /\ pc' = "fetched"
    /\ UNCHANGED <<api_df, aq_df, renew_df, include_fahrenheit, enriched, kpis, calls>>

NextHttp ==
    FetchExternalData \/ HttpRequest \/ HttpBackoff \/ HttpReturnNone \/ FetchFinish

SpecHttp == InitHttp /\ [][NextHttp]_vars

\* _http_get has returned or raised
HttpEnded == pc \in {"returned", "raised"}

\* C13: _http_get issues requests one after another until one returns status
\* 200, whose body it returns, or `attempts` requests have been made; when
\* every request fails it makes exactly `attempts` requests, pausing for the
\* backoff between consecutive attempts, and then returns None without raising.
C13_RetriesThenNone ==
    HttpEnded =>
        /\ pc = "returned"
        /\ http.requests <= http.attempts
        /\ IF http.last = "200" THEN http.result = "json"
           ELSE /\ http.result = "None"
                /\ http.requests = http.attempts
                /\ http.pauses = Max(http.attempts - 1, 0)

\* what the code does: with attempts <= 1 it behaves as C13 states; with
\* attempts >= 2 a first request that fails ends the call with AttributeError
\* after that single request and no pause, and fetch_external_data then
\* falls back to the simulation
C13_OneRequestThenRaises ==
    /\ HttpEnded /\ http.last # "200" =>
          IF http.attempts >= 2
          THEN pc = "raised" /\ http.result = "AttributeError"
               /\ http.requests = 1 /\ http.pauses = 0
          ELSE pc = "returned" /\ http.result = "None"
               /\ http.requests = http.attempts
    /\ HttpEnded /\ http.last = "200" =>
          pc = "returned" /\ http.result = "json" /\ http.requests = 1
    /\ (pc = "fetched" /\ http.df = "fetched") => http.last = "200"

====
